---- MODULE Spec2Model ----
(***************************************************************************)
(* A state-machine model of the transformer notebook (src/model.ipynb and  *)
(* its near-identical twin src/unnamed/part_000): tensor masks, the        *)
(* dataset's sample assembly, masked attention, the decoder's mask         *)
(* plumbing, greedy decoding driven by run_validation, and the training    *)
(* loop.  Tensors are functions from 1-based index tuples to values,       *)
(* together with their shape.                                              *)
(***************************************************************************)
EXTENDS Integers, Sequences, FiniteSets, TLC

(***************************************************************************)
(* Bounds of the model.                                                    *)
(***************************************************************************)
\* largest max_len handed to greeedy_decode
MaxLen == 3
\* the configured seq_len (350 in get_config; kept small here)
SeqLen == 3
\* the configured num_epochs (20 in get_config; kept small here)
NumEpochs == 2
\* largest query/key length of an attention call
AttnLen == 2
\* batches the training DataLoader yields per epoch
BatchesPerEpoch == 2
\* largest batch the training DataLoader collates (batch_size is 8 in get_config)
MaxBatch == 3
\* largest number of attention heads (h is 8 in build_transformer)
MaxHeads == 3
\* largest d_model handed to build_transformer (512 in get_config)
MaxDModel == 4
\* largest number N of encoder and of decoder blocks (6 in build_transformer)
MaxLayers == 3
\* length of the last axis LayerNormalization normalizes over (d_model)
Features == 3
\* threads running forward passes on one model at the same time
NumThreads == 2
\* encode / decode / project calls made one after another on one model
MaxCalls == 2

(***************************************************************************)
(* Reserved token ids: WordLevelTrainer(special_tokens=["[UNK]", "[PAD]",  *)
(* "[SOS]", "[EOS]"]) numbers the special tokens in list order.            *)
(***************************************************************************)
UNK == 0
PAD == 1
SOS == 2
EOS == 3

\* the target vocabulary: the reserved ids, [UNK] standing for every ordinary word
Vocab == {UNK, PAD, SOS, EOS}

\* the value written over masked scores: masked_fill(mask == 0, -1e9)
MaskedFillValue == -1000000000

\* the default num_examples of run_validation
NumExamples == 2

\* the dropout probability, in percent: dropout = 0.1
DropoutPercent == 10

\* 1 / eps of LayerNormalization: eps = 10**-6
EpsInverse == 1000000

(***************************************************************************)
(* Tensors: [shape |-> <<d1, ..., dn>>, at |-> [index tuple |-> value]].   *)
(***************************************************************************)
MaxOf(S) == CHOOSE x \in S : \A y \in S : y <= x

Indices(shape) ==
    CASE Len(shape) = 0 -> {<<>>}
      [] Len(shape) = 1 -> { <<a>> : a \in 1 .. shape[1] }
      [] Len(shape) = 2 -> { <<a, b>> : a \in 1 .. shape[1], b \in 1 .. shape[2] }
      [] Len(shape) = 3 ->
            { <<a, b, c>> : a \in 1 .. shape[1], b \in 1 .. shape[2], c \in 1 .. shape[3] }
      [] Len(shape) = 4 ->
            { <<a, b, c, d>> : a \in 1 .. shape[1], b \in 1 .. shape[2],
                               c \in 1 .. shape[3], d \in 1 .. shape[4] }

\* shape[k] of a shape padded on the left with 1s to rank n (right alignment)
DimR(shape, n, k) ==
    IF k - (n - Len(shape)) >= 1 THEN shape[k - (n - Len(shape))] ELSE 1

Rank2(a, b) == IF Len(a) >= Len(b) THEN Len(a) ELSE Len(b)

\* torch broadcasting: two shapes are compatible iff, right-aligned, every
\* pair of dimensions is equal or one of them is 1
Broadcastable(a, b) ==
    \A k \in 1 .. Rank2(a, b) :
        \/ DimR(a, Rank2(a, b), k) = DimR(b, Rank2(a, b), k)
        \/ DimR(a, Rank2(a, b), k) = 1
        \/ DimR(b, Rank2(a, b), k) = 1

BroadcastShape(a, b) ==
    [k \in 1 .. Rank2(a, b) |->
        IF DimR(a, Rank2(a, b), k) = 1 THEN DimR(b, Rank2(a, b), k)
        ELSE DimR(a, Rank2(a, b), k)]

\* the index of tensor x that the index t of a rank-n broadcast result reads
BIndex(x, t) ==
    [k \in 1 .. Len(x.shape) |->
        IF x.shape[k] = 1 THEN 1 ELSE t[k + (Len(t) - Len(x.shape))]]

BAt(x, t) == x.at[BIndex(x, t)]

(***************************************************************************)
(* causal_mask(size): triu(ones(1, size, size), diagonal=1) == 0.          *)
(***************************************************************************)
\* torch.triu(..., diagonal=2)
Triu2(t) == IF t[3] - t[2] >= 2 THEN 1 ELSE 0

Triu1(t) == IF t[3] - t[2] >= 1 THEN 1 ELSE 0

\* return mask instead of mask == 0
CausalMaskNotNegated(size) ==
    [shape |-> <<1, size, size>>,
     at |-> [t \in Indices(<<1, size, size>>) |-> Triu1(t) = 1]]

CausalMask(size) ==
    [shape |-> <<1, size, size>>,
     at |-> [t \in Indices(<<1, size, size>>) |-> Triu1(t) = 0]]

\* .type_as(source_mask): a boolean mask as an int mask
TypeAsInt(m) ==
    [shape |-> m.shape, at |-> [t \in Indices(m.shape) |-> IF m.at[t] THEN 1 ELSE 0]]

\* (ids != pad_token).unsqueeze(0).int()
PaddingMask(ids) ==
    [shape |-> <<1, Len(ids)>>,
     at |-> [t \in Indices(<<1, Len(ids)>>) |-> IF ids[t[2]] # PAD THEN 1 ELSE 0]]

\* int tensor & bool tensor, broadcast; the result is an int tensor
AndIntBool(x, y) ==
    [shape |-> BroadcastShape(x.shape, y.shape),
     at |-> [t \in Indices(BroadcastShape(x.shape, y.shape)) |->
                IF BAt(x, t) = 1 /\ BAt(y, t) THEN 1 ELSE 0]]

(***************************************************************************)
(* BilingualDataset.__getitem__ on a pair of tokenized sentences.          *)
(***************************************************************************)
Pads(n) == [i \in 1 .. n |-> PAD]

\* the EOS token left out of the count
EncNumPaddingTokensNoEos(src, seq_len) == seq_len - Len(src) - 1

EncNumPaddingTokens(src, seq_len) == seq_len - Len(src) - 2

DecNumPaddingTokens(tgt, seq_len) == seq_len - Len(tgt) - 1

\* only the source length is tested
GetItemRaisesSourceOnly(src, tgt, seq_len) == EncNumPaddingTokens(src, seq_len) < 0

\* raise ValueError('Sentence is too long')
GetItemRaises(src, tgt, seq_len) ==
    EncNumPaddingTokens(src, seq_len) < 0 \/ DecNumPaddingTokens(tgt, seq_len) < 0

EncoderInput(src, seq_len) ==
    <<SOS>> \o src \o <<EOS>> \o Pads(EncNumPaddingTokens(src, seq_len))

\* the decoder input without its leading SOS
DecoderInputNoSos(tgt, seq_len) ==
    tgt \o Pads(DecNumPaddingTokens(tgt, seq_len) + 1)

DecoderInput(tgt, seq_len) ==
    <<SOS>> \o tgt \o Pads(DecNumPaddingTokens(tgt, seq_len))

\* the label built like the decoder input: SOS first, no EOS
LabelLikeDecoderInput(tgt, seq_len) ==
    <<SOS>> \o tgt \o Pads(DecNumPaddingTokens(tgt, seq_len))

Label(tgt, seq_len) ==
    tgt \o <<EOS>> \o Pads(DecNumPaddingTokens(tgt, seq_len))

EncoderMask(encoder_input) == PaddingMask(encoder_input)

DecoderMask(decoder_input) ==
    AndIntBool(PaddingMask(decoder_input), CausalMask(Len(decoder_input)))

GetItem(src, tgt, seq_len) ==
    IF GetItemRaises(src, tgt, seq_len)
    THEN [raised |-> TRUE]
    ELSE [raised |-> FALSE,
          encoder_input |-> EncoderInput(src, seq_len),
          decoder_input |-> DecoderInput(tgt, seq_len),
          encoder_mask |-> EncoderMask(EncoderInput(src, seq_len)),
          decoder_mask |-> DecoderMask(DecoderInput(tgt, seq_len)),
          label |-> Label(tgt, seq_len),
          src_text |-> src,
          tgt_text |-> tgt]

\* the ids a tokenizer can give a sentence's words
ContentIds == {UNK, PAD}

\* tokenized sentences of at most n words
Sentences(n) == UNION { [1 .. k -> ContentIds] : k \in 0 .. n }

(***************************************************************************)
(* The state.                                                              *)
(***************************************************************************)
VARIABLES
    pc,             \* the statement the program is at
    mode,           \* model.training: "train" or "eval"
    tgt_seq_len,    \* rows of the target PositionalEncoding table
    max_len,        \* run_validation / greeedy_decode: max_len
    count,          \* run_validation: count
    source,         \* run_validation: the current validation batch
    predicted,      \* run_validation: the sequences decoded so far
    encoder_output, \* greeedy_decode: encoder_output
    decoder_input,  \* greeedy_decode: decoder_input
    prob,           \* greeedy_decode: prob
    encode_calls,   \* Transformer.encode calls of the current greeedy_decode call
    decode_calls,   \* Transformer.decode calls of the current greeedy_decode call / training step
    len_checks,     \* evaluations of the max_len test in the current greeedy_decode call
    memo,           \* what the (fixed-parameter, eval-mode) model has been seen to compute
    epoch,          \* train_model: epoch
    global_step,    \* train_model: global_step
    batch,          \* train_model: the current training batch
    batch_no,       \* train_model: batches of the current epoch already trained on
    config,         \* train_model: config
    saved,          \* the checkpoint files on disk
    parameters,     \* train_model: the weights of model
    optimizer,      \* train_model: the state of optimizer
    state,          \* train_model: the checkpoint read by the preload block
    sample,         \* the last result of BilingualDataset.__getitem__
    attn,           \* the last MultiHeadAttentionBlock.attention call
    mask_out,       \* the last result of causal_mask
    battn,          \* the last encoder self-attention call on a collated batch
    ln,             \* the last LayerNormalization.forward call
    build,          \* build_transformer: its arguments and the modules made so far
    threads,        \* the MultiHeadAttentionBlock.forward calls running concurrently
    retained,       \* self.attention_scores of that MultiHeadAttentionBlock
    heads,          \* the last split into heads and merge back of MultiHeadAttentionBlock.forward
    tf,             \* the Transformer: its depth, positional tables and retained scores
    fwd             \* the Transformer.encode / decode / project call running on it

gvars == <<max_len, count, source, predicted, encoder_output, decoder_input, prob,
           encode_calls, len_checks>>

\* the model's weights, the optimizer's state and the preloaded checkpoint
wvars == <<parameters, optimizer, state>>

tvars == <<epoch, global_step, batch, batch_no, config, saved, wvars>>

\* the results of the operations called on their own
\* the state of the forward-pass operations called on their own
xvars == <<heads, tf, fwd>>

uvars == <<mask_out, battn, ln, build, threads, retained, xvars>>

\* the state of run_validation, train_model, __getitem__ and attention
pvars == <<mode, tgt_seq_len, gvars, decode_calls, memo, tvars, sample, attn>>

vars == <<pc, mode, tgt_seq_len, max_len, count, source, predicted, encoder_output,
          decoder_input, prob, encode_calls, decode_calls, len_checks, memo,
          epoch, global_step, batch, batch_no, config, saved, parameters, optimizer,
          state, sample, attn, mask_out, battn, ln, build, threads, retained,
          heads, tf, fwd>>

(***************************************************************************)
(* The model as a function.  With its parameters fixed and dropout off, a  *)
(* forward pass is a function of its inputs; memo holds the part of that   *)
(* function seen so far.  In training mode dropout makes every pass a      *)
(* fresh draw.                                                             *)
(***************************************************************************)
\* log-probability rows of ProjectionLayer, up to what arg-max can see:
\* one id strictly ahead, or all ids level
Peak(w) == [v \in Vocab |-> IF v = w THEN 1 ELSE 0]

Flat == [v \in Vocab |-> 0]

Dists == {Peak(w) : w \in Vocab} \cup {Flat}

\* torch.max(prob, dim=1): the index of the first maximal value
ArgMax(d) ==
    CHOOSE w \in DOMAIN d :
        /\ \A v \in DOMAIN d : d[v] <= d[w]
        /\ \A v \in DOMAIN d : d[v] = d[w] => w <= v

\* Transformer.encode(src, src_mask)
Encode(src, src_mask) == [src |-> src, src_mask |-> src_mask]

\* DecoderBlock.forward: the mask of each attention sublayer
SelfAttentionMask(src_mask, tgt_mask) == tgt_mask

CrossAttentionMask(src_mask, tgt_mask) == src_mask

\* Transformer.decode(encoder_output, src_mask, tgt, tgt_mask), as the decoder
\* blocks see it
Decode(memory, src_mask, tgt, tgt_mask) ==
    [memory |-> memory,
     tgt |-> tgt,
     self_attention_mask |-> SelfAttentionMask(src_mask, tgt_mask),
     cross_attention_mask |-> CrossAttentionMask(src_mask, tgt_mask)]

Known(call) == { m \in memo : m.call = call }

\* the rows the decoder can return for `call` at its last position
LastRows(call) ==
    IF mode = "train" THEN Dists
    ELSE IF Known(call) # {} THEN { m.row : m \in Known(call) }
    ELSE Dists

Remember(call, row) ==
    IF mode = "train" THEN memo ELSE memo \cup {[call |-> call, row |-> row]}

(***************************************************************************)
(* run_validation and greeedy_decode.                                      *)
(***************************************************************************)
\* the sentences of the validation split
ValSentences == << <<>>, <<UNK>> >>

\* the fields of a validation batch that run_validation reads
ValidationBatch(i) ==
    [encoder_input |-> GetItem(ValSentences[i], <<>>, SeqLen).encoder_input,
     encoder_mask |-> GetItem(ValSentences[i], <<>>, SeqLen).encoder_mask,
     src_text |-> ValSentences[i]]

\* run_validation without its model.eval()
RunValidationModeKept == mode

\* model.eval()
RunValidationMode == "eval"

RvEnter ==
    /\ pc = "rv_start"
    /\ mode' = RunValidationMode
    /\ count' = 0
    /\ predicted' = <<>>
    /\ pc' = "rv_loop"
    /\ UNCHANGED <<tgt_seq_len, max_len, source, encoder_output, decoder_input, prob,
                   encode_calls, decode_calls, len_checks, memo, tvars, sample, attn>>
    /\ UNCHANGED uvars

\* for batch in validation_ds: count += 1; ... greeedy_decode(...)
RvNextBatch ==
    /\ pc = "rv_loop"
    /\ \E i \in 1 .. Len(ValSentences) :
          source' = ValidationBatch(i)
    /\ count' = count + 1
    /\ encode_calls' = 0
    /\ decode_calls' = <<>>
    /\ len_checks' = 0
    /\ pc' = "gd_encode"
    /\ UNCHANGED <<mode, tgt_seq_len, max_len, predicted, encoder_output, decoder_input,
                   prob, memo, tvars, sample, attn>>
    /\ UNCHANGED uvars

\* validation_ds is exhausted before num_examples batches were decoded
RvExhausted ==
    /\ pc = "rv_loop"
    /\ pc' = "rv_done"
    /\ UNCHANGED <<mode, tgt_seq_len, gvars, decode_calls, memo, tvars, sample, attn>>
    /\ UNCHANGED uvars

\* the initial input filled with eos_idx
GreedyInitialInputEos == <<EOS>>

\* decoder_input = torch.empty(1,1).fill_(sos_idx)
GreedyInitialInput == <<SOS>>

\* encoder_output = model.encode(source, source_mask)
GdEncode ==
    /\ pc = "gd_encode"
    /\ encoder_output' = Encode(source.encoder_input, source.encoder_mask)
    /\ encode_calls' = encode_calls + 1
    /\ decoder_input' = GreedyInitialInput
    /\ pc' = "gd_check"
    /\ UNCHANGED <<mode, tgt_seq_len, max_len, count, source, predicted, prob,
                   decode_calls, len_checks, memo, tvars, sample, attn>>
    /\ UNCHANGED uvars

\* the length test off by one
GreedyLengthReachedLate == Len(decoder_input) = max_len + 2

\* if decoder_input.size(1) == max_len: break
GreedyLengthReached == Len(decoder_input) = max_len

GdLenCheck ==
    /\ pc = "gd_check"
    /\ len_checks' = len_checks + 1
    /\ pc' = IF GreedyLengthReached THEN "gd_return" ELSE "gd_decode"
    /\ UNCHANGED <<mode, tgt_seq_len, max_len, count, source, predicted, encoder_output,
                   decoder_input, prob, encode_calls, decode_calls, memo, tvars,
                   sample, attn>>
    /\ UNCHANGED uvars

\* a causal mask sized to the final length
GreedyDecoderMaskFinal == TypeAsInt(CausalMask(max_len))

\* decoder_mask = causal_mask(decoder_input.size(1)).type_as(source_mask)
GreedyDecoderMask == TypeAsInt(CausalMask(Len(decoder_input)))

\* the encoder run again on every step, on the growing decoder input
GreedyMemoryRecomputed == Encode(decoder_input, source.encoder_mask)

\* the encoder memory handed to model.decode
GreedyMemory == encoder_output

\* the source mask handed to model.decode
GreedySourceMask == source.encoder_mask

\* out[:, 0]
GreedyProjectedFirst(out) == 1

\* out[:, -1]: the position of the decoder output that is projected
GreedyProjectedPosition(out) == Len(out)

\* torch.cat([decoder_input, next_word], dim=1)
GreedyAppend(next_word) == Append(decoder_input, next_word)

\* the break on the wrong reserved id
GreedyStopsOnPad(next_word) == next_word = PAD

\* if next_word == eos_idx: break
GreedyStopsOn(next_word) == next_word = EOS

\* PositionalEncoding.forward adds pe[:, :x.shape[1], :]: a longer input does
\* not broadcast against the table
PositionalEncodingFits(x) == Len(x) <= tgt_seq_len

GdDecodeRaises ==
    /\ pc = "gd_decode"
    /\ ~PositionalEncodingFits(decoder_input)
    /\ pc' = "error"
    /\ UNCHANGED <<mode, tgt_seq_len, gvars, decode_calls, memo, tvars, sample, attn>>
    /\ UNCHANGED uvars

GdDecodeStep ==
    /\ pc = "gd_decode"
    /\ PositionalEncodingFits(decoder_input)
    /\ LET call == Decode(GreedyMemory, GreedySourceMask, decoder_input, GreedyDecoderMask)
       IN  \E last \in LastRows(call), other \in Dists :
              LET out == [p \in 1 .. Len(decoder_input) |->
                             IF p = Len(decoder_input) THEN last ELSE other]
              IN  /\ memo' = Remember(call, last)
                  /\ decode_calls' = Append(decode_calls,
                         [caller |-> "greeedy_decode", training |-> mode, call |-> call,
                          last_row |-> last])
                  /\ prob' = out[GreedyProjectedPosition(out)]
                  /\ decoder_input' = GreedyAppend(ArgMax(prob'))
                  /\ pc' = IF GreedyStopsOn(ArgMax(prob')) THEN "gd_return"
                           ELSE "gd_check"
    /\ UNCHANGED <<mode, tgt_seq_len, max_len, count, source, predicted, encoder_output,
                   encode_calls, len_checks, tvars, sample, attn>>
    /\ UNCHANGED uvars

\* return decoder_input.squeeze(0); ...; if count == num_examples: break
GdReturn ==
    /\ pc = "gd_return"
    /\ predicted' = Append(predicted, [src_text |-> source.src_text, model_out |-> decoder_input])
    /\ pc' = IF count = NumExamples THEN "rv_done" ELSE "rv_loop"
    /\ UNCHANGED <<mode, tgt_seq_len, max_len, count, source, encoder_output,
                   decoder_input, prob, encode_calls, decode_calls, len_checks, memo,
                   tvars, sample, attn>>
    /\ UNCHANGED uvars

NoSample == [called |-> FALSE]

NoTensor == [shape |-> <<0>>, at |-> <<>>]

NoMemory == [src |-> <<>>, src_mask |-> NoTensor]

NoAttention == [kind |-> "none"]

NoBatch == [kind |-> "none"]

\* causal_mask not called yet
NoMaskOut == [called |-> FALSE]

\* no batch has gone through the encoder's self-attention yet
NoBatchedAttention == [called |-> FALSE]

\* LayerNormalization.forward not called yet
NoLayerNorm == [called |-> FALSE]

\* build_transformer not called yet
NotBuilt == [state |-> "none"]

\* threads that may call forward on the one MultiHeadAttentionBlock
Threads == 1 .. NumThreads

\* no thread has called forward yet
NoThreads == [t \in Threads |-> [pc |-> "idle"]]

\* before anything is called: a freshly built model, no locals
\* MultiHeadAttentionBlock.forward not called yet
NoHeads == [state |-> "none"]

\* no Transformer built yet
NoTransformer == [built |-> FALSE]

\* no encode, decode or project call made yet
NoForward == [state |-> "idle", calls |-> 0]

\* the weights get_model builds, before any optimizer step of this run
FreshParameters == [from |-> "this run", steps |-> 0]

\* torch.optim.Adam(model.parameters(), ...) before any step
FreshOptimizer == [from |-> "this run", steps |-> 0]

\* the preload block has not read a checkpoint
NoState == [loaded |-> FALSE]

NothingRunYet ==
    /\ count = 0
    /\ source = NoBatch
    /\ predicted = <<>>
    /\ encoder_output = NoMemory
    /\ decoder_input = <<>>
    /\ prob = <<>>
    /\ encode_calls = 0
    /\ decode_calls = <<>>
    /\ len_checks = 0
    /\ memo = {}
    /\ epoch = 0
    /\ global_step = 0
    /\ batch = NoBatch
    /\ batch_no = 0
    /\ saved = {}
    /\ parameters = FreshParameters
    /\ optimizer = FreshOptimizer
    /\ state = NoState
    /\ sample = NoSample
    /\ attn = NoAttention
    /\ mask_out = NoMaskOut
    /\ battn = NoBatchedAttention
    /\ ln = NoLayerNorm
    /\ build = NotBuilt
    /\ threads = NoThreads
    /\ retained = NoTensor
    /\ heads = NoHeads
    /\ tf = NoTransformer
    /\ fwd = NoForward

\* get_config(): the keys train_model reads that decide its control flow
\* ("model_filename" is set, "model_basename" is not)
GetConfig == [preload |-> "None", keys |-> {"model_folder", "model_filename", "preload"}]

\* run_validation called on a freshly built model with any max_len
InitGreedy ==
    /\ pc = "rv_start"
    /\ config = GetConfig
    /\ mode = "train"
    /\ tgt_seq_len \in 1 .. MaxLen
    /\ max_len \in 1 .. MaxLen
    /\ NothingRunYet

\* run_validation and the greeedy_decode calls it makes, apart from the raise
NextValidation ==
    \/ RvEnter
    \/ RvNextBatch
    \/ RvExhausted
    \/ GdEncode
    \/ GdLenCheck
    \/ GdDecodeStep
    \/ GdReturn

NextGreedy ==
    \/ NextValidation
    \/ GdDecodeRaises

SpecGreedy == InitGreedy /\ [][NextGreedy]_vars

(***************************************************************************)
(* BilingualDataset.__getitem__ as an operation.                           *)
(***************************************************************************)
InitData ==
    /\ pc = "getitem"
    /\ config = GetConfig
    /\ mode = "train"
    /\ tgt_seq_len = SeqLen
    /\ max_len = SeqLen
    /\ NothingRunYet

GetItemCall ==
    /\ pc = "getitem"
    /\ pc' = "getitem_done"
    /\ \E src \in Sentences(SeqLen), tgt \in Sentences(SeqLen) :
          sample' = [called |-> TRUE, src |-> src, tgt |-> tgt, seq_len |-> SeqLen,
                     item |-> GetItem(src, tgt, SeqLen)]
    /\ UNCHANGED <<mode, tgt_seq_len, gvars, decode_calls, memo, tvars, attn>>
    /\ UNCHANGED uvars

\* causal_mask(size) called on its own, for any size up to seq_len
CausalMaskCall ==
    /\ pc = "getitem"
    /\ pc' = "causal_mask_done"
    /\ \E size \in 1 .. SeqLen :
          mask_out' = [called |-> TRUE, size |-> size, mask |-> CausalMask(size)]
    /\ UNCHANGED <<pvars, battn, ln, build, threads, retained, xvars>>

NextData ==
    \/ GetItemCall
    \/ CausalMaskCall

SpecData == InitData /\ [][NextData]_vars

(***************************************************************************)
(* MultiHeadAttentionBlock.attention on one batch element and one head:    *)
(* the scores are a tensor of shape 1 x 1 x query_len x key_len.           *)
(***************************************************************************)
\* mask is None
NoMask == [shape |-> <<>>, at |-> <<>>]

\* the values (query @ key^T) / sqrt(d_k) can take
ScoreVals == {0, 1}

\* Tensor.masked_fill(mask == 0, value): a new tensor; the receiver is unchanged
MaskedFill(scores, mask, value) ==
    [shape |-> scores.shape,
     at |-> [t \in Indices(scores.shape) |->
                IF BAt(mask, t) = 0 THEN value ELSE scores.at[t]]]

\* if mask is not None: attention_scores.masked_fill(mask==0, -1e9)
\* -- the filled tensor is dropped, attention_scores is what it was
SoftmaxInput(scores, mask) ==
    IF mask # NoMask
    THEN LET filled == MaskedFill(scores, mask, MaskedFillValue) IN scores
    ELSE scores

RowMax(x, t) == MaxOf({ x.at[<<t[1], t[2], t[3], k>>] : k \in 1 .. x.shape[4] })

\* exp(d) for d <= 0, in units of exp(-MaxOf(ScoreVals)); it underflows to
\* exactly 0 far below the range of the scores
ExpUnits(d) == IF d < 0 - MaxOf(ScoreVals) THEN 0 ELSE 2 ^ (d + MaxOf(ScoreVals))

RECURSIVE RowSum(_, _, _)
RowSum(x, t, k) ==
    IF k = 0 THEN 0
    ELSE ExpUnits(x.at[<<t[1], t[2], t[3], k>>] - RowMax(x, t)) + RowSum(x, t, k - 1)

\* softmax(dim=-1): each weight as the fraction num / den
Softmax(x) ==
    [shape |-> x.shape,
     at |-> [t \in Indices(x.shape) |->
                [num |-> ExpUnits(x.at[t] - RowMax(x, t)),
                 den |-> RowSum(x, t, x.shape[4])]]]

\* the sets of weights one nn.Dropout call can zero: in training mode none
\* or any one of them, in evaluation mode none
DropSets(shape) ==
    IF mode = "train"
    THEN { {} } \cup { {t} : t \in Indices(shape) }
    ELSE { {} }

\* nn.Dropout: in training mode the dropped weights become 0 and the kept
\* ones are scaled by 1 / (1 - p); in evaluation mode it is the identity
Dropout(w, D) ==
    [shape |-> w.shape,
     at |-> [t \in Indices(w.shape) |->
                IF mode # "train" THEN w.at[t]
                ELSE IF t \in D THEN [num |-> 0, den |-> w.at[t].den]
                ELSE [num |-> w.at[t].num * 100,
                      den |-> w.at[t].den * (100 - DropoutPercent)]]]

\* token sequences as the dataset builds them: SOS first
KeyIds(n) == { <<SOS>> \o r : r \in [1 .. n - 1 -> {UNK, PAD}] }

\* the (kind, query_len, key_len, mask) of the attention calls of a forward pass
AttentionInputs ==
    UNION {
        { [kind |-> "encoder", query_len |-> n, key_len |-> n, mask |-> EncoderMask(ids)]
            : ids \in KeyIds(n) }
        \cup
        { [kind |-> "decoder", query_len |-> n, key_len |-> n,
           mask |-> Decode(NoMemory, EncoderMask(ids), ids, DecoderMask(ids)).self_attention_mask]
            : ids \in KeyIds(n) }
        \cup
        { [kind |-> "decoder", query_len |-> n, key_len |-> n,
           mask |-> Decode(NoMemory, EncoderMask(ids), ids,
                           TypeAsInt(CausalMask(n))).self_attention_mask]
            : ids \in KeyIds(n) }
        \cup
        { [kind |-> "cross", query_len |-> q, key_len |-> n,
           mask |-> Decode(NoMemory, EncoderMask(ids), ids,
                           TypeAsInt(CausalMask(q))).cross_attention_mask]
            : ids \in KeyIds(n), q \in 1 .. AttnLen }
        \cup
        { [kind |-> "unmasked", query_len |-> q, key_len |-> n, mask |-> NoMask]
            : q \in 1 .. AttnLen }
      : n \in 1 .. AttnLen }

\* MultiHeadAttentionBlock.attention, and forward's self.attention_scores = ...
Attention ==
    /\ pc = "attention"
    /\ pc' = "attention_done"
    /\ \E in \in AttentionInputs :
         \E scores \in [Indices(<<1, 1, in.query_len, in.key_len>>) -> ScoreVals] :
           \E D \in DropSets(<<1, 1, in.query_len, in.key_len>>) :
              LET raw == [shape |-> <<1, 1, in.query_len, in.key_len>>, at |-> scores]
              IN  attn' = [kind |-> in.kind,
                           mask |-> in.mask,
                           scores |-> raw,
                           softmax_input |-> SoftmaxInput(raw, in.mask),
                           softmax |-> Softmax(SoftmaxInput(raw, in.mask)),
                           dropped |-> D,
                           attention_scores |->
                               Dropout(Softmax(SoftmaxInput(raw, in.mask)), D)]
    /\ UNCHANGED <<mode, tgt_seq_len, gvars, decode_calls, memo, tvars, sample>>
    /\ UNCHANGED uvars

InitAttention ==
    /\ pc = "attention"
    /\ config = GetConfig
    /\ mode \in {"train", "eval"}
    /\ tgt_seq_len = SeqLen
    /\ max_len = SeqLen
    /\ NothingRunYet

NextAttention == Attention

SpecAttention == InitAttention /\ [][NextAttention]_vars

(***************************************************************************)
(* The encoder's self-attention on a training batch: the DataLoader        *)
(* collates B samples, train_model hands batch['encoder_mask'] to          *)
(* model.encode, and every EncoderBlock hands it to attention as mask.     *)
(***************************************************************************)
\* default_collate: B tensors of one shape stacked along a new first axis
Collate(items) ==
    [shape |-> <<Len(items)>> \o items[1].shape,
     at |-> [t \in Indices(<<Len(items)>> \o items[1].shape) |->
                items[t[1]].at[SubSeq(t, 2, Len(t))]]]

\* the encoder inputs __getitem__ can return
EncoderInputs ==
    { EncoderInput(src, SeqLen) :
        src \in { r \in Sentences(SeqLen) : ~GetItemRaises(r, <<>>, SeqLen) } }

\* the shape of query @ key.transpose(-2, -1): (Batch, h, seq_len, seq_len)
ScoresShape(B, h, q_len, k_len) == <<B, h, q_len, k_len>>

\* masked_fill raises RuntimeError when mask == 0 cannot be broadcast to the scores
MaskedFillRaises(scores_shape, mask) ==
    mask # NoMask /\ ~Broadcastable(scores_shape, mask.shape)

\* scores that are all equal (as with zeroed query weights)
LevelScores(shape) == [shape |-> shape, at |-> [t \in Indices(shape) |-> 0]]

\* one batch through the self-attention of the first encoder block
EncoderAttentionOnBatch ==
    /\ pc = "batch_attention"
    /\ pc' = "batch_attention_done"
    /\ \E B \in 1 .. MaxBatch, h \in 1 .. MaxHeads :
         \E inputs \in [1 .. B -> EncoderInputs] :
            LET mask == Collate([b \in 1 .. B |-> EncoderMask(inputs[b])])
                shape == ScoresShape(B, h, SeqLen, SeqLen)
            IN  battn' =
                  IF MaskedFillRaises(shape, mask)
                  THEN [called |-> TRUE, raised |-> TRUE, h |-> h,
                        encoder_input |-> inputs, mask |-> mask]
                  ELSE [called |-> TRUE, raised |-> FALSE, h |-> h,
                        encoder_input |-> inputs, mask |-> mask,
                        applied |-> [shape |-> shape,
                                     at |-> [t \in Indices(shape) |-> BAt(mask, t)]],
                        softmax_input |-> SoftmaxInput(LevelScores(shape), mask)]
    /\ UNCHANGED <<pvars, mask_out, ln, build, threads, retained, xvars>>

InitBatch ==
    /\ pc = "batch_attention"
    /\ config = GetConfig
    /\ mode = "train"
    /\ tgt_seq_len = SeqLen
    /\ max_len = SeqLen
    /\ NothingRunYet

NextBatch == EncoderAttentionOnBatch

SpecBatch == InitBatch /\ [][NextBatch]_vars

(***************************************************************************)
(* LayerNormalization.forward on one vector of the last axis.  Values that *)
(* are not integers are fractions num / den.                               *)
(***************************************************************************)
RECURSIVE SeqSum(_)
SeqSum(x) == IF x = <<>> THEN 0 ELSE Head(x) + SeqSum(Tail(x))

\* x.mean(dim=-1, keepdim=True)
Mean(x) == SeqSum(x) \div Len(x)

\* the sum of squared deviations from the mean
SquaredDeviations(x) == SeqSum([i \in 1 .. Len(x) |-> (x[i] - Mean(x)) * (x[i] - Mean(x))])

\* torch.var: the unbiased estimate, divided by n - 1
Variance(x) == SquaredDeviations(x) \div (Len(x) - 1)

\* x.std(dim=-1, keepdim=True)
Std(x) == CHOOSE r \in 0 .. Variance(x) : r * r = Variance(x)

\* the values of the activations
ActivationVals == 0 .. 4

\* the vectors whose mean and std are whole numbers
Activations ==
    { x \in [1 .. Features -> ActivationVals] :
        /\ SeqSum(x) % Len(x) = 0
        /\ SquaredDeviations(x) % (Len(x) - 1) = 0
        /\ \E r \in 0 .. Variance(x) : r * r = Variance(x) }

\* the values of the learned scalars alpha and bias
ParamVals == 0 .. 2

\* (x - mean) / (std + self.eps), element i
Normalized(x, i) ==
    [num |-> (x[i] - Mean(x)) * EpsInverse, den |-> Std(x) * EpsInverse + 1]

\* self.alpha + (x - mean) / (std + self.eps) + self.bias
LayerNormForward(x, alpha, bias) ==
    [i \in 1 .. Len(x) |->
        [num |-> alpha * Normalized(x, i).den + Normalized(x, i).num
                    + bias * Normalized(x, i).den,
         den |-> Normalized(x, i).den]]

LayerNormCall ==
    /\ pc = "layer_norm"
    /\ pc' = "layer_norm_done"
    /\ \E x \in Activations, alpha \in ParamVals, bias \in ParamVals :
          ln' = [called |-> TRUE, x |-> x, alpha |-> alpha, bias |-> bias,
                 normalized |-> [i \in 1 .. Len(x) |-> Normalized(x, i)],
                 out |-> LayerNormForward(x, alpha, bias)]
    /\ UNCHANGED <<pvars, mask_out, battn, build, threads, retained, xvars>>

InitLayerNorm ==
    /\ pc = "layer_norm"
    /\ config = GetConfig
    /\ mode = "train"
    /\ tgt_seq_len = SeqLen
    /\ max_len = SeqLen
    /\ NothingRunYet

NextLayerNorm == LayerNormCall

SpecLayerNorm == InitLayerNorm /\ [][NextLayerNorm]_vars

(***************************************************************************)
(* build_transformer.  A module instance is the number of the constructor  *)
(* call that made it; build.made counts the instances made so far.         *)
(***************************************************************************)
\* the assert never fails
MhaInitNeverRaises(d_model, h) == FALSE

\* assert d_model % h == 0, "d_model is not divisble by h"
MhaInitRaises(d_model, h) == d_model % h # 0

\* self.d_k = d_model // h
MhaDk(d_model, h) == d_model \div h

\* the k-th instance of a block built once, before the loop
HoistedInstance(made, k) == k

\* the k-th constructor call after `made` instances: a new instance
NewInstance(made, k) == made + k

\* MultiHeadAttentionBlock(d_model, h, dropout)
MultiHeadAttentionBlock(id, d_model, h) ==
    [id |-> id, d_model |-> d_model, h |-> h, d_k |-> MhaDk(d_model, h)]

\* ResidualConnection(dropout): the wrapper and its own LayerNormalization
ResidualConnection(id, norm) == [id |-> id, norm |-> norm]

\* build_transformer(..., d_model, N, h): the embeddings and positional encodings
BtCall ==
    /\ pc = "build"
    /\ build.state = "none"
    /\ \E d_model \in 1 .. MaxDModel, h \in 1 .. MaxHeads, N \in 1 .. MaxLayers :
          build' = [state |-> "encoder_blocks", d_model |-> d_model, h |-> h, N |-> N,
                    src_embed |-> 1, tgt_embed |-> 2, src_pos |-> 3, tgt_pos |-> 4,
                    encoder_blocks |-> <<>>, decoder_blocks |-> <<>>, made |-> 4]
    /\ UNCHANGED <<pc, pvars, mask_out, battn, ln, threads, retained, xvars>>

\* one pass of the first `for _ in range(N)` loop
BtEncoderBlock ==
    /\ pc = "build"
    /\ build.state = "encoder_blocks"
    /\ Len(build.encoder_blocks) < build.N
    /\ IF MhaInitRaises(build.d_model, build.h)
       THEN build' = [build EXCEPT !.state = "raised"]
       ELSE build' =
              [build EXCEPT
                 !.encoder_blocks = Append(@,
                    [self_attention_block |->
                        MultiHeadAttentionBlock(NewInstance(build.made, 1),
                                                build.d_model, build.h),
                     feed_forward_block |-> NewInstance(build.made, 2),
                     id |-> NewInstance(build.made, 3),
                     residual_connections |->
                        << ResidualConnection(NewInstance(build.made, 4),
                                              NewInstance(build.made, 5)),
                           ResidualConnection(NewInstance(build.made, 6),
                                              NewInstance(build.made, 7)) >>]),
                 !.made = @ + 7,
                 !.state = IF Len(build.encoder_blocks) + 1 = build.N
                           THEN "decoder_blocks" ELSE "encoder_blocks"]
    /\ UNCHANGED <<pc, pvars, mask_out, battn, ln, threads, retained, xvars>>

\* one pass of the second `for _ in range(N)` loop
BtDecoderBlock ==
    /\ pc = "build"
    /\ build.state = "decoder_blocks"
    /\ Len(build.decoder_blocks) < build.N
    /\ IF MhaInitRaises(build.d_model, build.h)
       THEN build' = [build EXCEPT !.state = "raised"]
       ELSE build' =
              [build EXCEPT
                 !.decoder_blocks = Append(@,
                    [self_attention_block |->
                        MultiHeadAttentionBlock(NewInstance(build.made, 1),
                                                build.d_model, build.h),
                     cross_attention_block |->
                        MultiHeadAttentionBlock(NewInstance(build.made, 2),
                                                build.d_model, build.h),
                     feed_forward_block |-> NewInstance(build.made, 3),
                     id |-> NewInstance(build.made, 4),
                     residual_connections |->
                        << ResidualConnection(NewInstance(build.made, 5),
                                              NewInstance(build.made, 6)),
                           ResidualConnection(NewInstance(build.made, 7),
                                              NewInstance(build.made, 8)),
                           ResidualConnection(NewInstance(build.made, 9),
                                              NewInstance(build.made, 10)) >>]),
                 !.made = @ + 10,
                 !.state = IF Len(build.decoder_blocks) + 1 = build.N
                           THEN "assemble" ELSE "decoder_blocks"]
    /\ UNCHANGED <<pc, pvars, mask_out, battn, ln, threads, retained, xvars>>

\* Encoder(...), Decoder(...), ProjectionLayer(...), Transformer(...), return
BtAssemble ==
    /\ pc = "build"
    /\ build.state = "assemble"
    /\ build' = [state |-> "built", d_model |-> build.d_model, h |-> build.h,
                 N |-> build.N,
                 src_embed |-> build.src_embed, tgt_embed |-> build.tgt_embed,
                 src_pos |-> build.src_pos, tgt_pos |-> build.tgt_pos,
                 encoder_blocks |-> build.encoder_blocks,
                 decoder_blocks |-> build.decoder_blocks,
                 encoder |-> [id |-> NewInstance(build.made, 1),
                              norm |-> NewInstance(build.made, 2)],
                 decoder |-> [id |-> NewInstance(build.made, 3),
                              norm |-> NewInstance(build.made, 4)],
                 projection_layer |-> NewInstance(build.made, 5),
                 made |-> build.made + 5]
    /\ pc' = "build_done"
    /\ UNCHANGED <<pvars, mask_out, battn, ln, threads, retained, xvars>>

InitBuild ==
    /\ pc = "build"
    /\ config = GetConfig
    /\ mode = "train"
    /\ tgt_seq_len = SeqLen
    /\ max_len = SeqLen
    /\ NothingRunYet

NextBuild ==
    \/ BtCall
    \/ BtEncoderBlock
    \/ BtDecoderBlock
    \/ BtAssemble

SpecBuild == InitBuild /\ [][NextBuild]_vars

(***************************************************************************)
(* MultiHeadAttentionBlock.forward called by several threads on one module *)
(* in evaluation mode.  query, key, value, x are locals of each call;      *)
(* self.attention_scores is the one attribute of the module.               *)
(***************************************************************************)
\* the scores of one query against two keys
ForwardScoresShape == <<1, 1, 1, 2>>

\* the scores the calls can compute from their inputs
ForwardScores ==
    { [shape |-> ForwardScoresShape, at |-> f] :
        f \in [Indices(ForwardScoresShape) -> ScoreVals] }

\* the value row of each key
ForwardValue == <<0, 1>>

\* attention_scores @ value, for one query: a fraction
AttnApply(w, value) ==
    [num |-> SeqSum([k \in 1 .. Len(value) |-> w.at[<<1, 1, 1, k>>].num * value[k]]),
     den |-> w.at[<<1, 1, 1, 1>>].den]

\* the context computed from the attribute of the module
ContextFromRetained(th) == AttnApply(retained, th.value)

\* x as w_o gets it: the local the attention call was unpacked into
ForwardContext(th) == th.x

\* forward(q, k, v, mask): the projections, up to the call of attention
ThCall(t) ==
    /\ pc = "forward"
    /\ threads[t].pc = "idle"
    /\ \E scores \in ForwardScores :
          threads' = [threads EXCEPT ![t] =
                         [pc |-> "called", scores |-> scores, value |-> ForwardValue]]
    /\ UNCHANGED <<pc, pvars, mask_out, battn, ln, build, retained, xvars>>

\* MultiHeadAttentionBlock.attention(query, key, value, mask, self.dropout)
ThAttention(t) ==
    /\ pc = "forward"
    /\ threads[t].pc = "called"
    /\ threads' = [threads EXCEPT ![t] =
          [pc |-> "computed", scores |-> threads[t].scores, value |-> threads[t].value,
           result |->
              [x |-> AttnApply(Dropout(Softmax(SoftmaxInput(threads[t].scores, NoMask)), {}),
                               threads[t].value),
               attention_scores |->
                    Dropout(Softmax(SoftmaxInput(threads[t].scores, NoMask)), {})]]]
    /\ UNCHANGED <<pc, pvars, mask_out, battn, ln, build, retained, xvars>>

\* x, self.attention_scores = <the result of attention>
ThStore(t) ==
    /\ pc = "forward"
    /\ threads[t].pc = "computed"
    /\ threads' = [threads EXCEPT ![t] =
          [pc |-> "stored", scores |-> threads[t].scores, value |-> threads[t].value,
           x |-> threads[t].result.x,
           attention_scores |-> threads[t].result.attention_scores]]
    /\ retained' = threads[t].result.attention_scores
    /\ UNCHANGED <<pc, pvars, mask_out, battn, ln, build, xvars>>

\* return self.w_o(x), x reshaped
ThReturn(t) ==
    /\ pc = "forward"
    /\ threads[t].pc = "stored"
    /\ threads' = [threads EXCEPT ![t] =
          [pc |-> "returned", scores |-> threads[t].scores, value |-> threads[t].value,
           attention_scores |-> threads[t].attention_scores,
           retained_at_return |-> retained,
           out |-> [w_o |-> ForwardContext(threads[t])]]]
    /\ UNCHANGED <<pc, pvars, mask_out, battn, ln, build, retained, xvars>>

\* what forward returns when no other call runs
ForwardAlone(scores, value) ==
    [w_o |-> AttnApply(Dropout(Softmax(SoftmaxInput(scores, NoMask)), {}), value)]

InitForward ==
    /\ pc = "forward"
    /\ config = GetConfig
    /\ mode = "eval"
    /\ tgt_seq_len = SeqLen
    /\ max_len = SeqLen
    /\ NothingRunYet

NextForward ==
    \E t \in Threads :
        \/ ThCall(t)
        \/ ThAttention(t)
        \/ ThStore(t)
        \/ ThReturn(t)

SpecForward == InitForward /\ [][NextForward]_vars

(***************************************************************************)
(* The split into heads and the merge back in                              *)
(* MultiHeadAttentionBlock.forward, as maps on indices.  A tensor is       *)
(* labelled with the index of each of its entries, so that where an entry  *)
(* ends up can be read off the result.                                     *)
(***************************************************************************)
\* the state of the other operations called on their own
ovars == <<mask_out, battn, ln, build, threads, retained>>

\* the position of index t in the row-major storage of a contiguous tensor
RECURSIVE Offset(_, _)
Offset(shape, t) ==
    IF Len(t) = 0 THEN 0
    ELSE Offset(SubSeq(shape, 1, Len(shape) - 1), SubSeq(t, 1, Len(t) - 1)) * shape[Len(shape)]
            + (t[Len(t)] - 1)

\* x.view(shape) of a contiguous x: the same storage read under another shape
View(x, shape) ==
    [shape |-> shape,
     at |-> [t \in Indices(shape) |->
                x.at[CHOOSE u \in Indices(x.shape) :
                        Offset(x.shape, u) = Offset(shape, t)]]]

\* x.transpose(1, 2) of a tensor of rank 4
Transpose12(x) ==
    [shape |-> <<x.shape[1], x.shape[3], x.shape[2], x.shape[4]>>,
     at |-> [t \in Indices(<<x.shape[1], x.shape[3], x.shape[2], x.shape[4]>>) |->
                x.at[<<t[1], t[3], t[2], t[4]>>]]]

\* the number of entries of a tensor of rank 4
Numel(x) == x.shape[1] * x.shape[2] * x.shape[3] * x.shape[4]

\* query.view(query.shape[0], query.shape[1], self.h, self.d_k).transpose(1,2)
SplitHeads(x, h, d_k) == Transpose12(View(x, <<x.shape[1], x.shape[2], h, d_k>>))

\* the merge without the transpose back
MergeHeadsUntransposed(x, h, d_k) ==
    View(x, <<x.shape[1], Numel(x) \div (x.shape[1] * h * d_k), h * d_k>>)

\* x.transpose(1, 2).contiguous().view(x.shape[0], -1, self.h * self.d_k)
MergeHeads(x, h, d_k) ==
    View(Transpose12(x), <<x.shape[1], Numel(x) \div (x.shape[1] * h * d_k), h * d_k>>)

\* a (batch, seq, d_model) tensor whose entries are their own indices
Labelled(B, S, d_model) ==
    [shape |-> <<B, S, d_model>>, at |-> [t \in Indices(<<B, S, d_model>>) |-> t]]

\* forward is called on a block built with d_model and h (d_model % h = 0)
HdCall ==
    /\ pc = "heads"
    /\ heads.state = "none"
    /\ \E B \in 1 .. MaxBatch, S \in 1 .. AttnLen, h \in 1 .. MaxHeads,
          d_model \in 1 .. MaxDModel :
          /\ ~MhaInitRaises(d_model, h)
          /\ heads' = [state |-> "called", h |-> h, d_k |-> MhaDk(d_model, h),
                       x |-> Labelled(B, S, d_model)]
    /\ UNCHANGED <<pc, pvars, ovars, tf, fwd>>

\* the split of a projected input into heads
HdSplit ==
    /\ pc = "heads"
    /\ heads.state = "called"
    /\ heads' = [state |-> "split", h |-> heads.h, d_k |-> heads.d_k, x |-> heads.x,
                 query |-> SplitHeads(heads.x, heads.h, heads.d_k)]
    /\ UNCHANGED <<pc, pvars, ovars, tf, fwd>>

\* the merge of a tensor laid out by head, as attention returns it
HdMerge ==
    /\ pc = "heads"
    /\ heads.state = "split"
    /\ heads' = [state |-> "merged", h |-> heads.h, d_k |-> heads.d_k, x |-> heads.x,
                 query |-> heads.query,
                 merged |-> MergeHeads(heads.query, heads.h, heads.d_k)]
    /\ UNCHANGED <<pc, pvars, ovars, tf, fwd>>

InitHeads ==
    /\ pc = "heads"
    /\ config = GetConfig
    /\ mode = "eval"
    /\ tgt_seq_len = SeqLen
    /\ max_len = SeqLen
    /\ NothingRunYet

NextHeads ==
    \/ HdCall
    \/ HdSplit
    \/ HdMerge

SpecHeads == InitHeads /\ [][NextHeads]_vars

(***************************************************************************)
(* Transformer.encode, decode and project as sequences of sublayer calls.  *)
(* Values are named by the order they are made in (the call's argument is  *)
(* value 0); an entry of fwd.log is one module call: what it was given and *)
(* what it made.                                                           *)
(***************************************************************************)
\* the attention blocks of a Transformer of n layers
AttentionKeys(n) ==
    { <<"encoder", k, "self_attention_block">> : k \in 1 .. n }
        \cup { <<"decoder", k, "self_attention_block">> : k \in 1 .. n }
        \cup { <<"decoder", k, "cross_attention_block">> : k \in 1 .. n }

\* an attention block whose forward has not run has no attention_scores
NotRetained == [call |-> 0, entry |-> 0]

\* build_transformer(..., seq_len, seq_len, ..., N)
FwConstruct ==
    /\ pc = "pass"
    /\ ~tf.built
    /\ \E n \in 1 .. MaxLayers :
          tf' = [built |-> TRUE, N |-> n,
                 pe |-> [src_pos |-> SeqLen, tgt_pos |-> SeqLen],
                 attention_scores |-> [key \in AttentionKeys(n) |-> NotRetained]]
    /\ UNCHANGED <<pc, pvars, ovars, heads, fwd>>

\* the state of the model a forward call can read or write
Snapshot == [tf |-> tf, parameters |-> parameters, training |-> mode]

\* model.encode(src, src_mask), model.decode(encoder_output, src_mask, tgt,
\* tgt_mask) or model.project(x) is called, on an input of L positions
FwCall ==
    /\ pc = "pass"
    /\ tf.built
    /\ fwd.state \in {"idle", "returned"}
    /\ fwd.calls < MaxCalls
    /\ \E op \in {"encode", "decode", "project"}, L \in 1 .. SeqLen :
          fwd' = [state |-> "running", calls |-> fwd.calls + 1, op |-> op, L |-> L,
                  at |-> IF op = "project" THEN "project" ELSE "embed",
                  layer |-> 1, sub |-> 1, x |-> 0, made |-> 0, log |-> <<>>,
                  before |-> Snapshot,
                  before_args |->
                      [encoder_output |-> IF op = "decode" THEN "encoder_output" ELSE "none",
                       src_mask |-> IF op = "project" THEN "none" ELSE "src_mask",
                       tgt_mask |-> IF op = "decode" THEN "tgt_mask" ELSE "none"],
                  src_mask |-> IF op = "project" THEN "none" ELSE "src_mask",
                  tgt_mask |-> IF op = "decode" THEN "tgt_mask" ELSE "none",
                  encoder_output |-> IF op = "decode" THEN "encoder_output" ELSE "none"]
    /\ UNCHANGED <<pc, pvars, ovars, heads, tf>>

\* the call f after one more module call: the module is given f.x (and, for
\* an attention block, q, k, v and mask) and makes the next value
Applied(f, module, layer, residual, sublayer, q, k, v, mask) ==
    [f EXCEPT !.log = Append(@, [module |-> module, layer |-> layer,
                                 residual |-> residual, sublayer |-> sublayer,
                                 x |-> f.x, q |-> q, k |-> k, v |-> v, mask |-> mask,
                                 encoder_output |-> f.encoder_output,
                                 src_mask |-> f.src_mask, tgt_mask |-> f.tgt_mask,
                                 out |-> f.made + 1]),
              !.x = f.made + 1,
              !.made = f.made + 1]

\* x, self.attention_scores = attention(...): the block retains the scores
\* of this call
Retained(key) ==
    [tf EXCEPT !.attention_scores[key] = [call |-> fwd.calls, entry |-> Len(fwd.log) + 1]]

\* src = self.src_embed(src) / tgt = self.tgt_embed(tgt)
FwEmbed ==
    /\ pc = "pass"
    /\ fwd.state = "running"
    /\ fwd.at = "embed"
    /\ fwd' = [Applied(fwd, IF fwd.op = "encode" THEN "src_embed" ELSE "tgt_embed",
                       0, 0, "embedding", "none", "none", "none", "none")
                  EXCEPT !.at = "pos"]
    /\ UNCHANGED <<pc, pvars, ovars, heads, tf>>

\* the table cut down to the rows that were read
PeTruncated(rows, L) == L

\* self.pe after forward: the slice self.pe[:, :x.shape[1], :] is read, the
\* buffer is left as it was
PeAfterForward(rows, L) == rows

\* src = self.src_pos(src) / tgt = self.tgt_pos(tgt)
FwPositionalEncoding ==
    /\ pc = "pass"
    /\ fwd.state = "running"
    /\ fwd.at = "pos"
    /\ IF fwd.op = "encode"
       THEN /\ fwd.L <= tf.pe.src_pos
            /\ tf' = [tf EXCEPT !.pe.src_pos = PeAfterForward(@, fwd.L)]
       ELSE /\ fwd.L <= tf.pe.tgt_pos
            /\ tf' = [tf EXCEPT !.pe.tgt_pos = PeAfterForward(@, fwd.L)]
    /\ fwd' = [Applied(fwd, IF fwd.op = "encode" THEN "src_pos" ELSE "tgt_pos",
                       0, 0, "positional_encoding", "none", "none", "none", "none")
                  EXCEPT !.at = "block"]
    /\ UNCHANGED <<pc, pvars, ovars, heads>>

\* the loop that leaves out every other layer
SkipLayer(k) == k + 2

\* for layer in self.layers: the layer after layer k
NextLayer(k) == k + 1

\* the call f when the block of f.layer has returned
BlockReturned(f) ==
    [f EXCEPT !.layer = NextLayer(f.layer),
              !.sub = 1,
              !.at = IF NextLayer(f.layer) > tf.N THEN "norm" ELSE "block"]

\* x = self.residual_connections[0](x, lambda x: self.self_attention_block(x, x, x, src_mask))
FwEncoderSelfAttention ==
    /\ pc = "pass"
    /\ fwd.state = "running"
    /\ fwd.op = "encode"
    /\ fwd.at = "block"
    /\ fwd.sub = 1
    /\ fwd' = [Applied(fwd, "encoder", fwd.layer, fwd.sub, "self_attention_block",
                       "norm(x)", "norm(x)", "norm(x)", fwd.src_mask)
                  EXCEPT !.sub = 2]
    /\ tf' = Retained(<<"encoder", fwd.layer, "self_attention_block">>)
    /\ UNCHANGED <<pc, pvars, ovars, heads>>

\* x = self.residual_connections[1](x, self.feed_forward_block); return x
FwEncoderFeedForward ==
    /\ pc = "pass"
    /\ fwd.state = "running"
    /\ fwd.op = "encode"
    /\ fwd.at = "block"
    /\ fwd.sub = 2
    /\ fwd' = BlockReturned(Applied(fwd, "encoder", fwd.layer, fwd.sub,
                                    "feed_forward_block", "norm(x)", "none", "none",
                                    "none"))
    /\ UNCHANGED <<pc, pvars, ovars, heads, tf>>

\* DecoderBlock.forward with cross-attention before self-attention
DecoderSublayersCrossFirst ==
    <<"cross_attention_block", "self_attention_block", "feed_forward_block">>

\* the sublayers of the three statements of DecoderBlock.forward, in order
DecoderSublayers ==
    <<"self_attention_block", "cross_attention_block", "feed_forward_block">>

\* the call f when statement f.sub of DecoderBlock.forward is done
StatementDone(f) ==
    IF f.sub = Len(DecoderSublayers) THEN BlockReturned(f) ELSE [f EXCEPT !.sub = @ + 1]

\* x = self.residual_connections[..](x, lambda x: self.self_attention_block(x, x, x, tgt_mask))
FwDecoderSelfAttention ==
    /\ pc = "pass"
    /\ fwd.state = "running"
    /\ fwd.op = "decode"
    /\ fwd.at = "block"
    /\ DecoderSublayers[fwd.sub] = "self_attention_block"
    /\ fwd' = StatementDone(Applied(fwd, "decoder", fwd.layer, fwd.sub,
                                    "self_attention_block", "norm(x)", "norm(x)",
                                    "norm(x)",
                                    SelfAttentionMask(fwd.src_mask, fwd.tgt_mask)))
    /\ tf' = Retained(<<"decoder", fwd.layer, "self_attention_block">>)
    /\ UNCHANGED <<pc, pvars, ovars, heads>>

\* x = self.residual_connections[..](x, lambda x: self.cross_attention_block(x,
\* encoder_output, encoder_output, src_mask))
FwDecoderCrossAttention ==
    /\ pc = "pass"
    /\ fwd.state = "running"
    /\ fwd.op = "decode"
    /\ fwd.at = "block"
    /\ DecoderSublayers[fwd.sub] = "cross_attention_block"
    /\ fwd' = StatementDone(Applied(fwd, "decoder", fwd.layer, fwd.sub,
                                    "cross_attention_block", "norm(x)",
                                    fwd.encoder_output, fwd.encoder_output,
                                    CrossAttentionMask(fwd.src_mask, fwd.tgt_mask)))
    /\ tf' = Retained(<<"decoder", fwd.layer, "cross_attention_block">>)
    /\ UNCHANGED <<pc, pvars, ovars, heads>>

\* x = self.residual_connections[..](x, self.feed_forward_block)
FwDecoderFeedForward ==
    /\ pc = "pass"
    /\ fwd.state = "running"
    /\ fwd.op = "decode"
    /\ fwd.at = "block"
    /\ DecoderSublayers[fwd.sub] = "feed_forward_block"
    /\ fwd' = StatementDone(Applied(fwd, "decoder", fwd.layer, fwd.sub,
                                    "feed_forward_block", "norm(x)", "none", "none",
                                    "none"))
    /\ UNCHANGED <<pc, pvars, ovars, heads, tf>>

\* return self.norm(x), of Encoder.forward and Decoder.forward
FwNorm ==
    /\ pc = "pass"
    /\ fwd.state = "running"
    /\ fwd.at = "norm"
    /\ fwd' = [Applied(fwd, IF fwd.op = "encode" THEN "encoder" ELSE "decoder",
                       0, 0, "norm", "none", "none", "none", "none")
                  EXCEPT !.state = "returned"]
    /\ UNCHANGED <<pc, pvars, ovars, heads, tf>>

\* return self.projection_layer(x)
FwProject ==
    /\ pc = "pass"
    /\ fwd.state = "running"
    /\ fwd.at = "project"
    /\ fwd' = [Applied(fwd, "projection_layer", 0, 0, "proj", "none", "none", "none",
                       "none")
                  EXCEPT !.state = "returned"]
    /\ UNCHANGED <<pc, pvars, ovars, heads, tf>>

InitPass ==
    /\ pc = "pass"
    /\ config = GetConfig
    /\ mode \in {"train", "eval"}
    /\ tgt_seq_len = SeqLen
    /\ max_len = SeqLen
    /\ NothingRunYet

NextPass ==
    \/ FwConstruct
    \/ FwCall
    \/ FwEmbed
    \/ FwPositionalEncoding
    \/ FwEncoderSelfAttention
    \/ FwEncoderFeedForward
    \/ FwDecoderSelfAttention
    \/ FwDecoderCrossAttention
    \/ FwDecoderFeedForward
    \/ FwNorm
    \/ FwProject

SpecPass == InitPass /\ [][NextPass]_vars

(***************************************************************************)
(* train_model.                                                            *)
(***************************************************************************)
\* get_config() with "model_basename" added, as get_weights_file_path reads it
ConfigWithBasename ==
    [preload |-> "None",
     keys |-> {"model_folder", "model_filename", "model_basename", "preload"}]

Configs == {GetConfig, ConfigWithBasename}

\* the source mask train_model hands to model.decode: decoder_mask
TrainDecodeSourceMask(b) == b.decoder_mask

\* the target mask train_model hands to model.decode: decoder_mask
TrainDecodeTargetMask(b) == b.decoder_mask

\* for epoch in range(initial_epoch, config['num_epochs'])
TmEpochBegin ==
    /\ pc = "tm_epoch"
    /\ pc' = IF epoch < NumEpochs THEN "tm_batch" ELSE "tm_done"
    /\ batch_no' = 0
    /\ UNCHANGED <<mode, tgt_seq_len, gvars, decode_calls, memo, epoch, global_step,
                   batch, config, saved, wvars, sample, attn>>
    /\ UNCHANGED uvars

\* the tokenized sentences of the training split: ordinary words only, of
\* any length up to seq_len
TrainSentences == { [i \in 1 .. k |-> UNK] : k \in 0 .. SeqLen }

\* the DataLoader's __getitem__ raises ValueError('Sentence is too long')
TmBatchRaises ==
    /\ pc = "tm_batch"
    /\ batch_no < BatchesPerEpoch
    /\ { p \in TrainSentences \X TrainSentences :
            GetItemRaises(p[1], p[2], SeqLen) } # {}
    /\ pc' = "error"
    /\ UNCHANGED <<mode, tgt_seq_len, gvars, decode_calls, memo, tvars, sample, attn>>
    /\ UNCHANGED uvars

\* the batch loop without its model.train()
TrainStepModeKept == mode

\* model.train() at the head of every pass of the batch loop
TrainStepMode == "train"

\* one pass of the batch loop: model.train(), encode, decode, project, the
\* loss, optimizer.step(), global_step += 1
TmTrainStep ==
    /\ pc = "tm_batch"
    /\ batch_no < BatchesPerEpoch
    /\ \E src \in TrainSentences, tgt \in TrainSentences :
          /\ ~GetItemRaises(src, tgt, SeqLen)
          /\ batch' = GetItem(src, tgt, SeqLen)
    /\ mode' = TrainStepMode
    /\ decode_calls' =
          << [caller |-> "train_model",
              training |-> mode',
              call |-> Decode(Encode(batch'.encoder_input, batch'.encoder_mask),
                              TrainDecodeSourceMask(batch'),
                              batch'.decoder_input,
                              TrainDecodeTargetMask(batch')),
              last_row |-> Flat] >>
    /\ memo' = {}
    /\ parameters' = [parameters EXCEPT !.steps = @ + 1]
    /\ optimizer' = [optimizer EXCEPT !.steps = @ + 1]
    /\ global_step' = global_step + 1
    /\ batch_no' = batch_no + 1
    /\ UNCHANGED <<pc, tgt_seq_len, gvars, epoch, config, saved, state, sample, attn>>
    /\ UNCHANGED uvars

\* a max_len beyond the rows of the positional table
ValidationMaxLenBeyondTable == SeqLen + 2

\* the max_len train_model hands to run_validation: config['seq_len']
ValidationMaxLen == SeqLen

\* the batch loop is over: run_validation(model, val_dataloader, ...,
\* config['seq_len'], ...)
TmValidate ==
    /\ pc = "tm_batch"
    /\ batch_no = BatchesPerEpoch
    /\ max_len' = ValidationMaxLen
    /\ batch' = NoBatch
    /\ pc' = "rv_start"
    /\ UNCHANGED <<mode, tgt_seq_len, count, source, predicted, encoder_output,
                   decoder_input, prob, encode_calls, len_checks, decode_calls, memo,
                   epoch, global_step, batch_no, config, saved, wvars, sample, attn>>
    /\ UNCHANGED uvars

\* f'{epoch:02d}': the epoch number as the two digits of a file name
EpochKey(e) == IF e < 10 THEN "0" \o ToString(e) ELSE ToString(e)

\* torch.save(record, file): the file is written, or written over
Written(files, record) == { c \in files : c.file # record.file } \cup {record}

\* model_basename = config['model_basename'] in get_weights_file_path
WeightsFilePathRaises == "model_basename" \notin config.keys

\* run_validation has returned; get_weights_file_path raises KeyError
TmSaveRaises ==
    /\ pc = "rv_done"
    /\ WeightsFilePathRaises
    /\ pc' = "error"
    /\ count' = 0
    /\ source' = NoBatch
    /\ predicted' = <<>>
    /\ encoder_output' = NoMemory
    /\ decoder_input' = <<>>
    /\ prob' = <<>>
    /\ encode_calls' = 0
    /\ len_checks' = 0
    /\ decode_calls' = <<>>
    /\ UNCHANGED <<mode, tgt_seq_len, max_len, memo, tvars, sample, attn>>
    /\ UNCHANGED uvars

\* run_validation has returned; torch.save({...}, model_filename)
TmSave ==
    /\ pc = "rv_done"
    /\ ~WeightsFilePathRaises
    /\ saved' = Written(saved,
          [file |-> EpochKey(epoch), epoch |-> epoch, model_state_dict |-> parameters,
           optimizer_state_dict |-> optimizer, global_step |-> global_step])
    /\ epoch' = epoch + 1
    /\ pc' = "tm_epoch"
    /\ count' = 0
    /\ source' = NoBatch
    /\ predicted' = <<>>
    /\ encoder_output' = NoMemory
    /\ decoder_input' = <<>>
    /\ prob' = <<>>
    /\ encode_calls' = 0
    /\ len_checks' = 0
    /\ decode_calls' = <<>>
    /\ UNCHANGED <<mode, tgt_seq_len, max_len, memo, global_step, batch, batch_no,
                   config, wvars, sample, attn>>
    /\ UNCHANGED uvars

\* train_model(config) on a freshly built model
InitTrain ==
    /\ pc = "tm_epoch"
    /\ mode = "train"
    /\ tgt_seq_len = SeqLen
    /\ max_len = SeqLen
    /\ config \in Configs
    /\ NothingRunYet

NextTrain ==
    \/ TmEpochBegin
    \/ TmBatchRaises
    \/ TmTrainStep
    \/ TmValidate
    \/ TmSaveRaises
    \/ TmSave
    \/ NextValidation

\* the whole program: train_model, with run_validation after every epoch
Spec == InitTrain /\ [][NextTrain]_vars

(***************************************************************************)
(* train_model resuming from a checkpoint: config['preload'] names the     *)
(* epoch whose file an earlier run wrote.                                  *)
(***************************************************************************)
\* the file an earlier, complete run of train_model wrote after its epoch e
EarlierCheckpoint(e) ==
    [file |-> EpochKey(e), epoch |-> e,
     model_state_dict |-> [from |-> "earlier run", steps |-> (e + 1) * BatchesPerEpoch],
     optimizer_state_dict |-> [from |-> "earlier run", steps |-> (e + 1) * BatchesPerEpoch],
     global_step |-> (e + 1) * BatchesPerEpoch]

\* a config whose 'preload' is the key of epoch e
Preloading(c, e) == [c EXCEPT !.preload = EpochKey(e)]

\* get_weights_file_path raises KeyError, or torch.load finds no such file
TmPreloadRaises ==
    /\ pc = "tm_preload"
    /\ config.preload # "None"
    /\ \/ WeightsFilePathRaises
       \/ \A c \in saved : c.file # config.preload
    /\ pc' = "error"
    /\ UNCHANGED <<mode, tgt_seq_len, gvars, decode_calls, memo, tvars, sample, attn>>
    /\ UNCHANGED uvars

\* state = torch.load(model_filename); initial_epoch = state['epoch'] + 1;
\* optimizer.load_state_dict(state['optimizer_state_dict']);
\* global_step = state['global_step'].  The model is left as get_model built it.
TmPreload ==
    /\ pc = "tm_preload"
    /\ config.preload # "None"
    /\ ~WeightsFilePathRaises
    /\ \E c \in saved :
          /\ c.file = config.preload
          /\ state' = [loaded |-> TRUE, file |-> c.file, epoch |-> c.epoch,
                       model_state_dict |-> c.model_state_dict,
                       optimizer_state_dict |-> c.optimizer_state_dict,
                       global_step |-> c.global_step]
    /\ epoch' = state'.epoch + 1
    /\ optimizer' = state'.optimizer_state_dict
    /\ global_step' = state'.global_step
    /\ pc' = "tm_epoch"
    /\ UNCHANGED <<mode, tgt_seq_len, gvars, decode_calls, memo, batch, batch_no, config,
                   saved, parameters, sample, attn>>
    /\ UNCHANGED uvars

\* train_model(config) with config['preload'] set, on the files of an earlier run
InitResume ==
    /\ pc = "tm_preload"
    /\ mode = "train"
    /\ tgt_seq_len = SeqLen
    /\ max_len = SeqLen
    /\ \E c \in Configs, e \in 0 .. NumEpochs : config = Preloading(c, e)
    /\ count = 0
    /\ source = NoBatch
    /\ predicted = <<>>
    /\ encoder_output = NoMemory
    /\ decoder_input = <<>>
    /\ prob = <<>>
    /\ encode_calls = 0
    /\ decode_calls = <<>>
    /\ len_checks = 0
    /\ memo = {}
    /\ epoch = 0
    /\ global_step = 0
    /\ batch = NoBatch
    /\ batch_no = 0
    /\ saved = { EarlierCheckpoint(e) : e \in 0 .. NumEpochs - 1 }
    /\ parameters = FreshParameters
    /\ optimizer = FreshOptimizer
    /\ state = NoState
    /\ sample = NoSample
    /\ attn = NoAttention
    /\ mask_out = NoMaskOut
    /\ battn = NoBatchedAttention
    /\ ln = NoLayerNorm
    /\ build = NotBuilt
    /\ threads = NoThreads
    /\ retained = NoTensor
    /\ heads = NoHeads
    /\ tf = NoTransformer
    /\ fwd = NoForward

NextResume ==
    \/ TmPreloadRaises
    \/ TmPreload
    \/ TmEpochBegin
    \/ TmBatchRaises
    \/ TmTrainStep
    \/ TmValidate
    \/ TmSave
    \/ NextValidation

\* train_model resuming, with run_validation after every epoch
SpecResume == InitResume /\ [][NextResume]_vars

\* a sequential program always takes its next step
SpecGreedyFair == SpecGreedy /\ WF_vars(NextGreedy)

(***************************************************************************)
(* Properties of greeedy_decode and run_validation.                        *)
(***************************************************************************)
InGreedy == pc \in {"gd_check", "gd_decode", "gd_return"}

Steps == Len(decode_calls)

LastId == decoder_input[Len(decoder_input)]

\* C1: for every max_len >= 1 and every choice of arg-max ids, a
\* greeedy_decode call runs at most max_len decode steps (a step is only begun
\* while fewer than max_len have run), the sequence it returns begins with
\* SOS, and every call that begins comes to its end (returns, or raises).
C1_GreedyTerminates ==
    /\ [](InGreedy => /\ Steps <= max_len
                      /\ (pc = "gd_decode" => Steps < max_len)
                      /\ (pc = "gd_return" => decoder_input[1] = SOS))
    /\ ((pc = "gd_encode") ~> (pc \in {"gd_return", "error"}))

C1_Witness ==
    /\ pc = "gd_return"
    /\ max_len = MaxLen
    /\ Steps = max_len - 1
    /\ LastId # EOS

\* C4: the loop ends exactly when the id just appended is EOS or the length
\* has reached max_len: no decode step is begun after either, the call never
\* returns otherwise, and the length test runs once per generated token (plus
\* the one that ends the loop).
C4_LoopEndsExactly ==
    /\ pc = "gd_decode" =>
          /\ Len(decoder_input) < max_len
          /\ (Steps > 0 => LastId # EOS)
          /\ len_checks = Steps + 1
    /\ pc = "gd_check" =>
          /\ (Steps > 0 => LastId # EOS)
          /\ len_checks = Steps
    /\ pc = "gd_return" =>
          /\ \/ Steps > 0 /\ LastId = EOS
             \/ Len(decoder_input) = max_len
          /\ len_checks = (IF Steps > 0 /\ LastId = EOS THEN Steps ELSE Steps + 1)

C4_Witness ==
    /\ pc = "gd_return"
    /\ LastId = EOS
    /\ Steps = 1
    /\ Len(decoder_input) < max_len

\* C5: the k-th decode call of a greeedy_decode call is handed the decoder
\* input of length k and the causal mask of shape 1 x k x k, whatever max_len is.
C5_MaskMatchesCurrentLength ==
    \A k \in 1 .. Len(decode_calls) :
        decode_calls[k].caller = "greeedy_decode" =>
            /\ Len(decode_calls[k].call.tgt) = k
            /\ decode_calls[k].call.self_attention_mask = TypeAsInt(CausalMask(k))

C5_Witness ==
    /\ pc = "gd_return"
    /\ Steps = 2
    /\ max_len = 3
    /\ decode_calls[1].call.self_attention_mask.shape = <<1, 1, 1>>
    /\ decode_calls[2].call.self_attention_mask.shape = <<1, 2, 2>>

\* C6: a greeedy_decode call runs the encoder once, before its first decode
\* step, and every decode step gets that encoder output and the source mask.
C6_EncoderRunOnce ==
    /\ pc = "gd_encode" => encode_calls = 0 /\ decode_calls = <<>>
    /\ InGreedy =>
          /\ encode_calls = 1
          /\ encoder_output = Encode(source.encoder_input, source.encoder_mask)
          /\ \A k \in 1 .. Len(decode_calls) :
                /\ decode_calls[k].call.memory = encoder_output
                /\ decode_calls[k].call.cross_attention_mask = source.encoder_mask

C6_Witness ==
    /\ pc = "gd_return"
    /\ Steps = 2
    /\ encode_calls = 1

\* C7: decoding starts from <<SOS>>; after k steps the decoder input has k + 1
\* ids, the input of every earlier step is a prefix of it, and the id appended
\* by a step is a vocabulary id that is maximal in the row the decoder
\* returned for the last position of that step's input.
C7_AppendsArgMax ==
    InGreedy =>
        /\ Len(decoder_input) = Steps + 1
        /\ decoder_input[1] = SOS
        /\ \A k \in 1 .. Steps :
              /\ decode_calls[k].call.tgt = SubSeq(decoder_input, 1, k)
              /\ decoder_input[k + 1] \in Vocab
              /\ \A v \in Vocab :
                    decode_calls[k].last_row[v] <= decode_calls[k].last_row[decoder_input[k + 1]]

C7_Witness ==
    /\ pc = "gd_return"
    /\ Steps = 2
    /\ decoder_input[2] # decoder_input[3]
    /\ decode_calls[2].last_row # Flat

\* C8: two greeedy_decode calls of one run_validation call (same parameters,
\* same max_len) on the same source return the same sequence.
C8_Deterministic ==
    (Len(predicted) = 2 /\ predicted[1].src_text = predicted[2].src_text)
        => predicted[1].model_out = predicted[2].model_out

C8_Witness ==
    /\ pc = "rv_done"
    /\ Len(predicted) = 2
    /\ predicted[1].src_text = predicted[2].src_text
    /\ Len(predicted[1].model_out) = 3
    /\ predicted[2].model_out = predicted[1].model_out

(***************************************************************************)
(* Properties of attention masking.                                        *)
(***************************************************************************)
Masked(t) == attn.mask # NoMask /\ BAt(attn.mask, t) = 0

\* C2: in every attention call with a mask, the scores that enter softmax are
\* the raw scores except at the masked (query, key) positions, where they are
\* the large negative fill value, and the masked positions get zero weight.
C2_MaskedScoresSuppressed ==
    attn.kind # "none" =>
        \A t \in Indices(attn.scores.shape) :
            /\ Masked(t) => /\ attn.softmax_input.at[t] = MaskedFillValue
                            /\ attn.attention_scores.at[t].num = 0
            /\ ~Masked(t) => attn.softmax_input.at[t] = attn.scores.at[t]

\* C3: in decoder self-attention under the target mask, the weight of query i
\* on every later key j > i is zero.
C3_NeverAttendsToFuture ==
    attn.kind = "decoder" =>
        \A t \in Indices(attn.scores.shape) :
            t[3] < t[4] => attn.attention_scores.at[t].num = 0

\* C19: the attention_scores a MultiHeadAttentionBlock retains after a forward
\* call are the post-softmax probabilities of that call, entry by entry.
C19_RetainedScoresArePostSoftmax ==
    attn.kind # "none" =>
        /\ attn.attention_scores.shape = attn.scores.shape
        /\ \A t \in Indices(attn.scores.shape) :
              attn.attention_scores.at[t].num * attn.softmax.at[t].den
                 = attn.softmax.at[t].num * attn.attention_scores.at[t].den

(***************************************************************************)
(* Properties of the decoder's mask plumbing.                              *)
(***************************************************************************)
\* C9: in every decoder forward pass, from the training loop or from greedy
\* decoding, self-attention is masked by the target mask the caller built and
\* cross-attention by the padding mask of the encoder input the memory was
\* computed from.
C9_CrossAttentionUsesSourceMask ==
    \A k \in 1 .. Len(decode_calls) :
        /\ decode_calls[k].call.self_attention_mask =
              (IF decode_calls[k].caller = "train_model"
               THEN DecoderMask(decode_calls[k].call.tgt)
               ELSE TypeAsInt(CausalMask(Len(decode_calls[k].call.tgt))))
        /\ decode_calls[k].call.cross_attention_mask =
              EncoderMask(decode_calls[k].call.memory.src)

(***************************************************************************)
(* Properties of the dataset's masks.                                      *)
(***************************************************************************)
\* C10: in every sample __getitem__ returns, the decoder mask has shape
\* 1 x seq_len x seq_len and its entry (i, j) is set iff decoder_input[j] is
\* not PAD and j <= i.
C10_DecoderMaskIsPaddingAndCausal ==
    (sample.called /\ ~sample.item.raised) =>
        /\ sample.item.decoder_mask.shape = <<1, sample.seq_len, sample.seq_len>>
        /\ \A i \in 1 .. sample.seq_len, j \in 1 .. sample.seq_len :
              (sample.item.decoder_mask.at[<<1, i, j>>] = 1)
                  <=> (sample.item.decoder_input[j] # PAD /\ j <= i)

C10_Witness ==
    /\ sample.called
    /\ ~sample.item.raised
    /\ sample.item.decoder_input[2] = PAD
    /\ sample.item.decoder_input[3] = UNK
    /\ sample.item.decoder_mask.at[<<1, 3, 2>>] = 0
    /\ sample.item.decoder_mask.at[<<1, 3, 3>>] = 1
    /\ sample.item.decoder_mask.at[<<1, 2, 3>>] = 0

\* C11: every sample __getitem__ returns has encoder_input, decoder_input and
\* label of length exactly seq_len, whatever the source and target lengths
\* that fit (up to seq_len - 2 and seq_len - 1, where no PAD is added).
C11_SequencesHaveSeqLen ==
    (sample.called /\ ~sample.item.raised) =>
        /\ Len(sample.item.encoder_input) = sample.seq_len
        /\ Len(sample.item.decoder_input) = sample.seq_len
        /\ Len(sample.item.label) = sample.seq_len

C11_Witness ==
    /\ sample.called
    /\ ~sample.item.raised
    /\ Len(sample.src) = sample.seq_len - 2
    /\ Len(sample.tgt) = sample.seq_len - 1
    /\ Len(sample.item.encoder_input) = sample.seq_len
    /\ Len(sample.item.label) = sample.seq_len

\* C12: __getitem__ raises iff the source has more than seq_len - 2 tokens or
\* the target more than seq_len - 1, and a call that raises returns no
\* sequences at all.
C12_RaisesIffTooLong ==
    sample.called =>
        /\ sample.item.raised <=>
              (Len(sample.src) > sample.seq_len - 2 \/ Len(sample.tgt) > sample.seq_len - 1)
        /\ sample.item.raised => DOMAIN sample.item = {"raised"}

C12_Witness ==
    /\ sample.called
    /\ sample.item.raised
    /\ Len(sample.src) = sample.seq_len - 1
    /\ Len(sample.tgt) <= sample.seq_len - 1

\* C13: for a source of n and a target of m tokens that fit, encoder_input is
\* SOS, the source, EOS, then seq_len - n - 2 PADs; decoder_input is SOS, the
\* target, then seq_len - m - 1 PADs; label is the target, EOS, then
\* seq_len - m - 1 PADs.
C13_SequencesAssembled ==
    (sample.called /\ ~sample.item.raised) =>
        LET n == Len(sample.src)
            m == Len(sample.tgt)
            enc == sample.item.encoder_input
            dec == sample.item.decoder_input
            lab == sample.item.label
        IN  /\ Len(enc) - (n + 2) = sample.seq_len - n - 2
            /\ Len(dec) - (m + 1) = sample.seq_len - m - 1
            /\ Len(lab) - (m + 1) = sample.seq_len - m - 1
            /\ \A i \in 1 .. Len(enc) :
                  enc[i] = IF i = 1 THEN SOS
                           ELSE IF i <= n + 1 THEN sample.src[i - 1]
                           ELSE IF i = n + 2 THEN EOS ELSE PAD
            /\ \A i \in 1 .. Len(dec) :
                  dec[i] = IF i = 1 THEN SOS
                           ELSE IF i <= m + 1 THEN sample.tgt[i - 1] ELSE PAD
            /\ \A i \in 1 .. Len(lab) :
                  lab[i] = IF i <= m THEN sample.tgt[i]
                           ELSE IF i = m + 1 THEN EOS ELSE PAD

C13_Witness ==
    /\ sample.called
    /\ ~sample.item.raised
    /\ sample.src = <<UNK>>
    /\ sample.tgt = <<UNK>>
    /\ sample.item.encoder_input[3] = EOS
    /\ sample.item.decoder_input[3] = PAD
    /\ sample.item.label[2] = EOS
    /\ sample.item.label[3] = PAD

(***************************************************************************)
(* Properties of causal_mask.                                              *)
(***************************************************************************)
\* C14: causal_mask(size) has shape 1 x size x size and its entry (i, j) is
\* true iff j <= i, for every size >= 1.
C14_CausalMaskIsLowerTriangular ==
    mask_out.called =>
        /\ mask_out.size >= 1
        /\ mask_out.mask.shape = <<1, mask_out.size, mask_out.size>>
        /\ DOMAIN mask_out.mask.at =
              { <<1, i, j>> : i \in 1 .. mask_out.size, j \in 1 .. mask_out.size }
        /\ \A i \in 1 .. mask_out.size, j \in 1 .. mask_out.size :
              mask_out.mask.at[<<1, i, j>>] = (j <= i)

C14_Witness ==
    /\ mask_out.called
    /\ mask_out.size >= 2
    /\ mask_out.mask.at[<<1, 1, 1>>]
    /\ ~mask_out.mask.at[<<1, 1, 2>>]
    /\ mask_out.mask.at[<<1, 2, 1>>]
    /\ mask_out.mask.at[<<1, 2, 2>>]

(***************************************************************************)
(* Properties of masking on a batch.                                       *)
(***************************************************************************)
\* C15: for a batch of B sequences and h heads the mask can always be
\* broadcast, the mask entry applied to score (b, head, q, k) is that of key k
\* of batch element b, and the score is suppressed iff encoder_input[b][k]
\* is PAD.
C15_MaskAppliedPerBatchElement ==
    battn.called =>
        /\ ~battn.raised
        /\ \A t \in Indices(battn.applied.shape) :
              /\ (battn.applied.at[t] = 0) <=> (battn.encoder_input[t[1]][t[4]] = PAD)
              /\ (battn.softmax_input.at[t] = MaskedFillValue)
                    <=> (battn.encoder_input[t[1]][t[4]] = PAD)

(***************************************************************************)
(* Properties of LayerNormalization.                                       *)
(***************************************************************************)
\* C16: forward returns alpha * normalized + bias element by element, where
\* normalized = (x - mean) / (std + eps); with alpha = 1 and bias = 0 the
\* output is normalized itself.
C16_LayerNormIsAffine ==
    ln.called =>
        \A i \in 1 .. Len(ln.x) :
            /\ ln.out[i].den = ln.normalized[i].den
            /\ ln.out[i].num =
                  ln.alpha * ln.normalized[i].num + ln.bias * ln.normalized[i].den

(***************************************************************************)
(* Properties of build_transformer.                                        *)
(***************************************************************************)
\* the blocks made so far, encoder blocks first
Blocks == build.encoder_blocks \o build.decoder_blocks

\* the attention blocks of a block
AttentionBlocks(b) ==
    IF "cross_attention_block" \in DOMAIN b
    THEN <<b.self_attention_block, b.cross_attention_block>>
    ELSE <<b.self_attention_block>>

\* the attention, feed-forward, residual and normalization instances of a block
Owned(b) ==
    [i \in 1 .. Len(AttentionBlocks(b)) |-> AttentionBlocks(b)[i].id]
    \o <<b.feed_forward_block>>
    \o [i \in 1 .. Len(b.residual_connections) |-> b.residual_connections[i].id]
    \o [i \in 1 .. Len(b.residual_connections) |-> b.residual_connections[i].norm]

C18_NoModuleShared ==
    build.state # "none" =>
        /\ build.state = "built" =>
              /\ Len(build.encoder_blocks) = build.N
              /\ Len(build.decoder_blocks) = build.N
        /\ \A i \in 1 .. Len(Blocks) :
              \A k, l \in 1 .. Len(Owned(Blocks[i])) :
                 k # l => Owned(Blocks[i])[k] # Owned(Blocks[i])[l]
        /\ \A i, j \in 1 .. Len(Blocks) :
              i # j =>
                 \A k \in 1 .. Len(Owned(Blocks[i])), l \in 1 .. Len(Owned(Blocks[j])) :
                    Owned(Blocks[i])[k] # Owned(Blocks[j])[l]
        /\ \A i \in 1 .. Len(build.decoder_blocks) :
              build.decoder_blocks[i].self_attention_block.id
                 # build.decoder_blocks[i].cross_attention_block.id

C18_Witness ==
    /\ build.state = "built"
    /\ build.N >= 2
    /\ Len(build.encoder_blocks) = build.N
    /\ Len(build.decoder_blocks) = build.N

(***************************************************************************)
(* Properties of concurrent forward passes.                                *)
(***************************************************************************)
\* C20: under every interleaving of the forward calls of the threads, each
\* call returns what it returns when run alone, whatever the other calls
\* have written to attention_scores in the meantime.
C20_ConcurrentForwardsAreIndependent ==
    \A t \in Threads :
        threads[t].pc = "returned" =>
            threads[t].out = ForwardAlone(threads[t].scores, threads[t].value)

C20_Witness ==
    \E t \in Threads :
        /\ threads[t].pc = "returned"
        /\ threads[t].retained_at_return # threads[t].attention_scores
        /\ AttnApply(threads[t].retained_at_return, threads[t].value)
              # AttnApply(threads[t].attention_scores, threads[t].value)
        /\ threads[t].out = ForwardAlone(threads[t].scores, threads[t].value)

(***************************************************************************)
(* The shape of the sequence greeedy_decode returns.                       *)
(***************************************************************************)
\* the sequences returned so far, and the one about to be returned
Returned ==
    { predicted[k].model_out : k \in 1 .. Len(predicted) }
        \cup (IF pc = "gd_return" THEN {decoder_input} ELSE {})

\* C26: a sequence greeedy_decode returns has at most max_len ids, holds EOS
\* at no position but the last, and has exactly max_len ids when its last id
\* is not EOS; with max_len = 1 it is <<SOS>> and no decode step has run.
C26_ResultIsEosTerminatedOrFull ==
    /\ \A r \in Returned :
          /\ Len(r) \in 1 .. max_len
          /\ \A i \in 1 .. Len(r) - 1 : r[i] # EOS
          /\ r[Len(r)] # EOS => Len(r) = max_len
          /\ max_len = 1 => r = <<SOS>>
    /\ (pc = "gd_return" /\ max_len = 1) => Steps = 0

C26_Witness ==
    /\ pc = "rv_done"
    /\ max_len = 3
    /\ Len(predicted) = 2
    /\ predicted[1].model_out[Len(predicted[1].model_out)] = EOS
    /\ Len(predicted[1].model_out) = 2
    /\ Len(predicted[2].model_out) = 3
    /\ predicted[2].model_out[3] # EOS

(***************************************************************************)
(* The label against the decoder input.                                    *)
(***************************************************************************)
\* C28 as stated: in every sample with m target tokens, position i of the
\* label holds what position i + 1 of the decoder input holds for the m
\* positions of the content, the next position holds EOS, and the label holds
\* PAD at the positions after that and at no other.
C28_LabelIsShiftedDecoderInput ==
    (sample.called /\ ~sample.item.raised) =>
        LET m == Len(sample.tgt)
            dec == sample.item.decoder_input
            lab == sample.item.label
        IN  /\ \A i \in 1 .. m : lab[i] = dec[i + 1]
            /\ lab[m + 1] = EOS
            /\ \A i \in 1 .. Len(lab) : (lab[i] = PAD) <=> (i > m + 1)

\* C28 as amended: the same, except that the label holds PAD at every position
\* after the EOS, and before the EOS only where the target token is itself
\* the PAD id.
C28_LabelIsShiftedDecoderInputPaddedAfterEos ==
    (sample.called /\ ~sample.item.raised) =>
        LET m == Len(sample.tgt)
            dec == sample.item.decoder_input
            lab == sample.item.label
        IN  /\ \A i \in 1 .. m : lab[i] = dec[i + 1]
            /\ lab[m + 1] = EOS
            /\ \A i \in 1 .. Len(lab) :
                  (lab[i] = PAD) <=> (i > m + 1 \/ (i <= m /\ sample.tgt[i] = PAD))

C28_Witness ==
    /\ sample.called
    /\ ~sample.item.raised
    /\ sample.tgt = <<PAD>>
    /\ sample.item.decoder_input = <<SOS, PAD, PAD>>
    /\ sample.item.label = <<PAD, EOS, PAD>>

(***************************************************************************)
(* Properties of train_model's checkpoints.                                *)
(***************************************************************************)
\* C22: with the configuration get_config returns, whenever train_model
\* leaves the validation that ends epoch e, the file keyed by e holds a record
\* with the epoch number e, the parameters, the optimizer state and the
\* global step counter as they are at that moment.
C22_CheckpointAfterEveryEpoch ==
    [][(config = GetConfig /\ pc = "rv_done" /\ pc' # "rv_done") =>
          \E c \in saved' :
              /\ c.file = EpochKey(epoch)
              /\ c.epoch = epoch
              /\ c.model_state_dict = parameters
              /\ c.optimizer_state_dict = optimizer
              /\ c.global_step = global_step]_vars

\* C23: when the preload block has read the checkpoint config['preload']
\* names, training continues at the epoch after the checkpoint's, with the
\* global step counter, the optimizer state and the model's parameters equal
\* to those stored in the checkpoint.
C23_ResumeRestoresCheckpoint ==
    [][(pc = "tm_preload" /\ pc' = "tm_epoch") =>
          /\ state'.file = config.preload
          /\ epoch' = state'.epoch + 1
          /\ global_step' = state'.global_step
          /\ optimizer' = state'.optimizer_state_dict
          /\ parameters' = state'.model_state_dict]_vars

(***************************************************************************)
(* Properties of train_model's calls of the model.                         *)
(***************************************************************************)
\* C27: in train_model, where run_validation gets max_len = seq_len and the
\* positional table has seq_len rows, every decode call of greeedy_decode is
\* handed a decoder input of at least 1 and at most seq_len - 1 ids, so the
\* rows the positional encoding adds to it are rows of the table.
C27_GreedyInputFitsPositionalTable ==
    /\ pc = "gd_decode" =>
          /\ Len(decoder_input) \in 1 .. SeqLen - 1
          /\ PositionalEncodingFits(decoder_input)
    /\ \A k \in 1 .. Len(decode_calls) :
          decode_calls[k].caller = "greeedy_decode" =>
              /\ Len(decode_calls[k].call.tgt) \in 1 .. SeqLen - 1
              /\ PositionalEncodingFits(decode_calls[k].call.tgt)

C27_Witness ==
    /\ pc = "gd_return"
    /\ epoch = 1
    /\ max_len = SeqLen
    /\ tgt_seq_len = SeqLen
    /\ Steps = SeqLen - 1
    /\ decode_calls[Steps].caller = "greeedy_decode"
    /\ Len(decode_calls[Steps].call.tgt) = SeqLen - 1

\* C30: every forward pass of the training loop is made with the model in
\* training mode and every decode call of greeedy_decode with the model in
\* evaluation mode, in every epoch: the evaluation mode run_validation sets
\* after an epoch is not the mode of the next epoch's passes.
C30_TrainsInTrainModeValidatesInEvalMode ==
    /\ \A k \in 1 .. Len(decode_calls) :
          /\ decode_calls[k].caller = "train_model" => decode_calls[k].training = "train"
          /\ decode_calls[k].caller = "greeedy_decode" => decode_calls[k].training = "eval"
    /\ (pc = "tm_batch" /\ batch_no > 0) => mode = "train"
    /\ pc \in {"rv_loop", "gd_encode", "gd_check", "gd_decode", "gd_return", "rv_done"}
          => mode = "eval"

C30_Witness ==
    /\ pc = "tm_batch"
    /\ epoch = 1
    /\ batch_no = 1
    /\ saved # {}
    /\ mode = "train"
    /\ decode_calls[1].caller = "train_model"
    /\ decode_calls[1].training = "train"

(***************************************************************************)
(* Properties of the split into heads.                                     *)
(***************************************************************************)
\* C29: the split takes feature (head - 1) * d_k + d of position s of batch
\* element b to entry (b, head, s, d) of a (batch, h, seq, d_k) tensor, and
\* the merge takes it back to (b, s, (head - 1) * d_k + d): the round trip
\* gives back the tensor it started from, entry by entry.
C29_SplitAndMergeAreInverse ==
    /\ heads.state \in {"split", "merged"} =>
          /\ heads.query.shape =
                <<heads.x.shape[1], heads.h, heads.x.shape[2], heads.d_k>>
          /\ \A t \in Indices(heads.query.shape) :
                heads.query.at[t] = <<t[1], t[3], (t[2] - 1) * heads.d_k + t[4]>>
    /\ heads.state = "merged" =>
          /\ heads.merged.shape = heads.x.shape
          /\ \A t \in Indices(heads.x.shape) : heads.merged.at[t] = t

C29_Witness ==
    /\ heads.state = "merged"
    /\ heads.h = 2
    /\ heads.d_k = 2
    /\ heads.x.shape = <<2, 2, 4>>
    /\ heads.query.at[<<2, 2, 1, 2>>] = <<2, 1, 4>>
    /\ heads.merged.at[<<2, 1, 4>>] = <<2, 1, 4>>

(***************************************************************************)
(* Properties of Transformer.encode, decode and project.                   *)
(***************************************************************************)
\* the attention blocks a call of op runs
KeysRunBy(op) ==
    { key \in AttentionKeys(tf.N) :
         \/ op = "encode" /\ key[1] = "encoder"
         \/ op = "decode" /\ key[1] = "decoder" }

\* C21 as stated: when encode, decode or project returns, the parameters, the
\* positional tables and every attribute of every module are what they were
\* when it was called.
C21_ForwardLeavesModelStateUnchanged ==
    fwd.state = "returned" =>
        /\ parameters = fwd.before.parameters
        /\ mode = fwd.before.training
        /\ tf = fwd.before.tf

\* C21 as amended: when encode, decode or project returns, the parameters,
\* the positional tables and every attribute of every module are what they
\* were when it was called, except the attention_scores of the attention
\* blocks the call has run, which are those of this call.
C21_ForwardWritesOnlyRetainedScores ==
    fwd.state = "returned" =>
        /\ parameters = fwd.before.parameters
        /\ mode = fwd.before.training
        /\ [tf EXCEPT !.attention_scores = fwd.before.tf.attention_scores] = fwd.before.tf
        /\ \A key \in AttentionKeys(tf.N) :
              IF key \in KeysRunBy(fwd.op)
              THEN /\ tf.attention_scores[key].call = fwd.calls
                   /\ tf.attention_scores[key] # fwd.before.tf.attention_scores[key]
              ELSE tf.attention_scores[key] = fwd.before.tf.attention_scores[key]

C21_Witness ==
    /\ fwd.state = "returned"
    /\ fwd.calls = 2
    /\ fwd.op = "decode"
    /\ tf.N = 2
    /\ tf.pe = fwd.before.tf.pe
    /\ fwd.before.tf.attention_scores[<<"encoder", 2, "self_attention_block">>].call = 1
    /\ tf.attention_scores[<<"encoder", 2, "self_attention_block">>].call = 1
    /\ tf.attention_scores[<<"decoder", 2, "cross_attention_block">>].call = 2

\* C24: the statements of DecoderBlock.forward run self-attention (query,
\* key and value the normalized target stream, target mask) through residual
\* connection 0, then cross-attention (query the normalized target stream,
\* key and value the encoder memory, source mask) through residual connection
\* 1, then the feed-forward block through residual connection 2; each is given
\* the value the module call before it made.
C24_DecoderBlockSublayerOrder ==
    fwd.state # "idle" =>
        \A i \in 1 .. Len(fwd.log) :
            (fwd.log[i].module = "decoder" /\ fwd.log[i].sublayer # "norm") =>
                LET e == fwd.log[i]
                    prev == fwd.log[i - 1]
                IN  /\ i > 2
                    /\ e.x = prev.out
                    /\ e.residual \in 1 .. 3
                    /\ e.residual = 1 =>
                          /\ e.sublayer = "self_attention_block"
                          /\ e.q = "norm(x)" /\ e.k = "norm(x)" /\ e.v = "norm(x)"
                          /\ e.mask = "tgt_mask"
                          /\ prev.layer = e.layer - 1
                    /\ e.residual = 2 =>
                          /\ e.sublayer = "cross_attention_block"
                          /\ e.q = "norm(x)"
                          /\ e.k = "encoder_output" /\ e.v = "encoder_output"
                          /\ e.mask = "src_mask"
                          /\ prev.module = "decoder" /\ prev.layer = e.layer
                          /\ prev.residual = 1
                    /\ e.residual = 3 =>
                          /\ e.sublayer = "feed_forward_block"
                          /\ prev.module = "decoder" /\ prev.layer = e.layer
                          /\ prev.residual = 2
                    /\ (e.residual < 3 /\ i < Len(fwd.log)) =>
                          /\ fwd.log[i + 1].layer = e.layer
                          /\ fwd.log[i + 1].residual = e.residual + 1

C24_Witness ==
    /\ fwd.state = "returned"
    /\ fwd.op = "decode"
    /\ tf.N = 2
    /\ fwd.log[6].layer = 2
    /\ fwd.log[6].sublayer = "self_attention_block"
    /\ fwd.log[7].sublayer = "cross_attention_block"
    /\ fwd.log[7].x = fwd.log[6].out
    /\ fwd.log[8].sublayer = "feed_forward_block"
    /\ fwd.log[8].x = fwd.log[7].out

\* the sublayers of one block of the stack a call of op runs
SublayersPerBlock(op) == IF op = "encode" THEN 2 ELSE 3

\* C25: when Encoder.forward or Decoder.forward returns, it has run block 1,
\* then block 2, ... then block N, each once and each on the value the one
\* before it returned, then the final normalization once, on the value block
\* N returned, and nothing else; every decoder block was handed the encoder
\* memory, the source mask and the target mask that decode was called with.
C25_BlocksInOrderThenNorm ==
    (fwd.state = "returned" /\ fwd.op \in {"encode", "decode"}) =>
        LET r == SublayersPerBlock(fwd.op)
            stack == IF fwd.op = "encode" THEN "encoder" ELSE "decoder"
            n == Len(fwd.log)
        IN  /\ n = 2 + r * tf.N + 1
            /\ \A k \in 1 .. tf.N, j \in 1 .. r :
                  LET e == fwd.log[2 + r * (k - 1) + j]
                  IN  /\ e.module = stack
                      /\ e.layer = k
                      /\ e.residual = j
                      /\ e.x = fwd.log[2 + r * (k - 1) + j - 1].out
                      /\ e.encoder_output = fwd.before_args.encoder_output
                      /\ e.src_mask = fwd.before_args.src_mask
                      /\ e.tgt_mask = fwd.before_args.tgt_mask
            /\ fwd.log[n].module = stack
            /\ fwd.log[n].sublayer = "norm"
            /\ fwd.log[n].x = fwd.log[n - 1].out
            /\ fwd.x = fwd.log[n].out
            /\ \A i \in 1 .. n, j \in 1 .. n : i < j => fwd.log[i].out < fwd.log[j].out

C25_Witness ==
    /\ fwd.state = "returned"
    /\ fwd.op = "decode"
    /\ tf.N = 3
    /\ Len(fwd.log) = 12
    /\ fwd.log[9].layer = 3
    /\ fwd.log[9].encoder_output = "encoder_output"
    /\ fwd.log[12].sublayer = "norm"

====
